---- MODULE Spec2Model ----
(***************************************************************************)
(* A model of the whoami.sh terminal: the key-event controller of          *)
(* js/terminal-events.js, the command interpreter and the GitHub-backed    *)
(* filesystem cache of js/terminal-logic.js (second half of src/js/main.js)*)
(* and the theme registry of js/theme-manager.js (src/unnamed/part_001).   *)
(*                                                                         *)
(* Text is modelled as a sequence of one-character strings, so that trim,  *)
(* split, join, startsWith, lastIndexOf and substring are computed the way *)
(* the JavaScript computes them.  Every asynchronous function runs         *)
(* atomically from the event that starts it up to its first real           *)
(* suspension (a fetch that is not answered from the cache); the fetch's   *)
(* answer is a separate action that runs the continuation.                 *)
(***************************************************************************)
EXTENDS Integers, Sequences, FiniteSets, TLC

\* ------------------------------------------------------------------------
\* Bounds of the model
\* ------------------------------------------------------------------------
\* most No completions found lines on display before the cycle-trigger stops
MaxNoMatch == 1
\* most cycle-trigger presses counted in one run
MaxPresses == 4

\* ------------------------------------------------------------------------
\* JavaScript string functions on sequences of characters
\* ------------------------------------------------------------------------
UpperChars == <<"A","B","C","D","E","F","G","H","I","J","K","L","M",
                "N","O","P","Q","R","S","T","U","V","W","X","Y","Z">>
LowerChars == <<"a","b","c","d","e","f","g","h","i","j","k","l","m",
                "n","o","p","q","r","s","t","u","v","w","x","y","z">>

\* String.prototype.toLowerCase, one character
LowerChar(c) ==
  IF \E i \in 1..26 : UpperChars[i] = c
  THEN LowerChars[CHOOSE i \in 1..26 : UpperChars[i] = c]
  ELSE c

\* String.prototype.toLowerCase
ToLowerCase(s) == [i \in 1..Len(s) |-> LowerChar(s[i])]

RECURSIVE TrimStart(_)
TrimStart(s) == IF s # <<>> /\ Head(s) = " " THEN TrimStart(Tail(s)) ELSE s

RECURSIVE TrimEnd(_)
TrimEnd(s) ==
  IF s # <<>> /\ s[Len(s)] = " " THEN TrimEnd(SubSeq(s, 1, Len(s) - 1)) ELSE s

\* a trim that is forgotten
Trim_None(s) == s

\* String.prototype.trim (the only white space of the alphabet is " ")
Trim(s) == TrimEnd(TrimStart(s))

\* position (1-based) of the first " " of s, 0 when there is none
FirstSpace(s) ==
  IF \E i \in 1..Len(s) : s[i] = " "
  THEN CHOOSE i \in 1..Len(s) : s[i] = " " /\ \A j \in 1..(i - 1) : s[j] # " "
  ELSE 0

\* String.prototype.split(' '): empty parts are kept, "" splits to <<"">>
RECURSIVE Split(_)
Split(s) ==
  IF FirstSpace(s) = 0 THEN <<s>>
  ELSE <<SubSeq(s, 1, FirstSpace(s) - 1)>> \o Split(SubSeq(s, FirstSpace(s) + 1, Len(s)))

\* Array.prototype.join(sep)
RECURSIVE JoinWith(_, _)
JoinWith(parts, sep) ==
  IF parts = <<>> THEN <<>>
  ELSE IF Len(parts) = 1 THEN parts[1]
  ELSE parts[1] \o sep \o JoinWith(Tail(parts), sep)

\* Array.prototype.join(' ')
Join(parts) == JoinWith(parts, <<" ">>)

\* String.prototype.startsWith
StartsWith(s, p) == Len(p) <= Len(s) /\ SubSeq(s, 1, Len(p)) = p

\* String.prototype.lastIndexOf for a one-character needle: 0-based, -1 if absent
LastIndexOf(s, c) ==
  IF \E i \in 1..Len(s) : s[i] = c
  THEN (CHOOSE i \in 1..Len(s) : s[i] = c /\ \A j \in (i + 1)..Len(s) : s[j] # c) - 1
  ELSE -1

Clamp(n, len) == IF n < 0 THEN 0 ELSE IF n > len THEN len ELSE n

\* String.prototype.substring(a, b) with 0-based, clamped, ordered indices
Substring(s, a, b) ==
  LET x == Clamp(a, Len(s))
      y == Clamp(b, Len(s))
      lo == IF x < y THEN x ELSE y
      hi == IF x < y THEN y ELSE x
  IN SubSeq(s, lo + 1, hi)

\* String.prototype.substring(a)
SubstringFrom(s, a) == Substring(s, a, Len(s))

\* the sequence seq without its i-th element
RemoveAt(seq, i) == SubSeq(seq, 1, i - 1) \o SubSeq(seq, i + 1, Len(seq))

\* ------------------------------------------------------------------------
\* Static tables
\* ------------------------------------------------------------------------
\* commandList.map(c => c.cmd), in source order
commandList ==
  << <<".">>, <<"a","b","o","u","t">>, <<"c","a","t">>, <<"c","d">>, <<"c","l","e","a","r">>, <<"e","c","h","o">>, <<"e","d","u","c","a","t","i","o","n">>, <<"e","m","a","i","l">>,
     <<"g","i","t","h","u","b">>, <<"h","e","l","p">>, <<"h","i","s","t","o","r","y">>, <<"l","i","n","k","e","d","i","n">>, <<"l","s">>, <<"p","w","d">>, <<"t","h","e","m","e","s">>,
     <<"w","e","l","c","o","m","e">>, <<"w","h","o","a","m","i">> >>

\* Object.keys(themes), in source order
themes == << <<"c","a","t","p","p","u","c","c","i","n","-","m","o","c","h","a">>, <<"g","r","u","v","b","o","x">>, <<"m","a","t","r","i","x">>, <<"c","a","t","p","p","u","c","c","i","n","-","l","a","t","t","e">> >>

IsTheme(name) == \E i \in 1..Len(themes) : themes[i] = name

\* names a lookup on any object literal finds on Object.prototype
ObjectPrototypeKeys == { <<"c","o","n","s","t","r","u","c","t","o","r">>, <<"t","o","S","t","r","i","n","g">>, <<"v","a","l","u","e","O","f">>, <<"_","_","p","r","o","t","o","_","_">> }

Root == <<"/">>

\* ------------------------------------------------------------------------
\* The remote content provider (GitHub contents API of the repository)
\* ------------------------------------------------------------------------
Entry(n, t) == [name |-> n, type |-> t]
DirData(es) == [kind |-> "dir", entries |-> es, content |-> <<>>]
FileData(c) == [kind |-> "file", entries |-> <<>>, content |-> c]
NoData == [kind |-> "none", entries |-> <<>>, content |-> <<>>]

\* what GET /contents<path> answers with status 200: a directory answers an
\* array of descriptors, a file answers one descriptor carrying base64 text
RemoteTree ==
  << [path |-> <<"/">>,
      data |-> DirData(<< Entry(<<"i","c","o","n">>, "file"), Entry(<<"i","n","d","e","x">>, "file"),
                          Entry(<<"j","s">>, "dir"), Entry(<<"n","i","l">>, "file"),
                          Entry(<<"r","a","w">>, "file") >>)],
     [path |-> <<"/","j","s">>,
      data |-> DirData(<< Entry(<<"l","i","b">>, "dir") >>)],
     [path |-> <<"/","j","s","/","l","i","b">>,
      data |-> DirData(<< Entry(<<"m","a","i","n">>, "file"), Entry(<<"m","y"," ","x">>, "file"),
                          Entry(<<"u","t","i","l">>, "file") >>)],
     [path |-> <<"/","i","c","o","n">>,    data |-> FileData(<<"a","Q","=","=">>)],
     [path |-> <<"/","i","n","d","e","x">>,   data |-> FileData(<<"a","A","=","=">>)],
     [path |-> <<"/","n","i","l">>,     data |-> FileData(<<>>)],
     [path |-> <<"/","r","a","w">>,     data |-> FileData(<<"%","%">>)],
     [path |-> <<"/","j","s","/","l","i","b","/","m","a","i","n">>, data |-> FileData(<<"b","Q","=","=">>)],
     [path |-> <<"/","j","s","/","l","i","b","/","m","y"," ","x">>, data |-> FileData(<<"a","A","=","=">>)],
     [path |-> <<"/","j","s","/","l","i","b","/","u","t","i","l">>, data |-> FileData(<<"d","Q","=","=">>)] >>

RemoteHas(path) == \E i \in 1..Len(RemoteTree) : RemoteTree[i].path = path

\* the answer of the remote to GET <path>: ok is response.ok
Remote(path) ==
  IF RemoteHas(path)
  THEN [ok |-> TRUE,
        data |-> RemoteTree[CHOOSE i \in 1..Len(RemoteTree) : RemoteTree[i].path = path].data]
  ELSE [ok |-> FALSE, data |-> NoData]

\* a request that fails in transport, or is answered with a non-2xx status
FetchError == [ok |-> FALSE, data |-> NoData]

\* window.atob on the base64 texts the remote serves; anything else throws
AtobTable ==
  << [b64 |-> <<"a","Q","=","=">>, text |-> <<"i">>], [b64 |-> <<"a","A","=","=">>, text |-> <<"h">>],
     [b64 |-> <<"b","Q","=","=">>, text |-> <<"m">>], [b64 |-> <<"d","Q","=","=">>, text |-> <<"u">>] >>
AtobThrows(c) == ~ \E i \in 1..Len(AtobTable) : AtobTable[i].b64 = c
Atob(c) == AtobTable[CHOOSE i \in 1..Len(AtobTable) : AtobTable[i].b64 = c].text

\* ------------------------------------------------------------------------
\* Rendered output: terminal.children as a sequence of lines
\* ------------------------------------------------------------------------
Line(k, d, t) == [kind |-> k, dir |-> d, text |-> t]

\* dirDisplay of createPromptHTML and of the clear command
DirDisplay(dir) == IF dir = Root THEN <<"~">> ELSE <<"~">> \o dir

\* a div.line.prompt holding the span #user-input with text t
PromptLine(dir, t) == Line("prompt", DirDisplay(dir), t)

\* createPromptHTML(dir, false) + command: the echo of a submitted command
EchoLine(dir, command) == Line("echo", DirDisplay(dir), command)

OutLine(k, t) == Line(k, <<>>, t)

IsPrompt(l) == l.kind = "prompt"
IsCompletionDisplay(l) == l.kind \in {"completion-suggestions", "completion-indicator"}
NotCompletionDisplay(l) == ~ IsCompletionDisplay(l)

HasPrompt(term) == \E i \in 1..Len(term) : IsPrompt(term[i])

\* index of the element document.getElementById('user-input') finds: the
\* first prompt in document order (0 when there is none: the lookup is null)
FirstPrompt(term) ==
  IF HasPrompt(term)
  THEN CHOOSE i \in 1..Len(term) : IsPrompt(term[i]) /\ \A j \in 1..(i - 1) : ~ IsPrompt(term[j])
  ELSE 0

\* userInputSpan.textContent = t on the span of the first prompt
SetSpanText(term, t) ==
  IF HasPrompt(term)
  THEN [term EXCEPT ![FirstPrompt(term)].text = t]
  ELSE term

\* insert the lines ls right after the first prompt
InsertAfterPrompt(term, ls) ==
  LET i == FirstPrompt(term)
  IN SubSeq(term, 1, i) \o ls \o SubSeq(term, i + 1, Len(term))

\* querySelectorAll('.completion-suggestions, .completion-indicator') removed
RemoveCompletionDisplays(term) == SelectSeq(term, NotCompletionDisplay)

\* ------------------------------------------------------------------------
\* Interpreter state and asynchronous requests
\* ------------------------------------------------------------------------
\* the state handleCommand reads and writes, threaded through its steps
State(term, dir, cache, theme) ==
  [terminal |-> term, currentDirectory |-> dir, fileSystemCache |-> cache,
   currentTheme |-> theme]

Append1(st, l) == [st EXCEPT !.terminal = Append(@, l)]
AppendAll(st, ls) == [st EXCEPT !.terminal = @ \o ls]

\* a store that forgets what it held for other paths
CacheSet_Forgetful(cache, path, data) ==
  [p \in {path} |-> data]

\* fileSystemCache.set(path, data)
CacheSet(cache, path, data) ==
  [p \in (DOMAIN cache) \cup {path} |-> IF p = path THEN data ELSE cache[p]]

\* a suspended asynchronous function waiting for the answer to GET <path>:
\*   op    which await it is suspended at
\*   arg   the argument of the command (filename, targetDir) or the partial
\*   newPath  the candidate path of a cd
\*   input the trimmed line an autocomplete activation was started on
\*   span  the element userInputSpan captured by the activation: "null",
\*         "live" (the span of the first prompt) or "detached"
\*   stale whether the line was edited or submitted since the activation
Task(op, path, arg, newPath, input, span) ==
  [op |-> op, path |-> path, arg |-> arg, newPath |-> newPath, input |-> input,
   span |-> span, stale |-> FALSE]
NoTask == Task("none", <<>>, <<>>, <<>>, <<>>, "null")

CmdTask(op, path, arg, newPath) == Task(op, path, arg, newPath, <<>>, "null")

IsCmdTask(t) == t.op \in {"ls", "catFile", "catTip", "cd"}
IsAcTask(t) == t.op \in {"acFile", "acDir"}

\* how far handleCommand got: "done" (returned {clear, currentDirectory}),
\* "threw" (rejected) or "pending" (suspended in task)
\* result is the object handed to the caller, with the properties it has
NoResult == [settled |-> FALSE]
ResultOfSwitch(st) == [clear |-> FALSE, currentDirectory |-> st.currentDirectory]
ResultOfClear == [clear |-> TRUE]
Done(st) ==
  [status |-> "done", clear |-> FALSE, st |-> st, task |-> NoTask, result |-> ResultOfSwitch(st)]
Cleared(st) ==
  [status |-> "done", clear |-> TRUE, st |-> st, task |-> NoTask, result |-> ResultOfClear]
Threw(st) ==
  [status |-> "threw", clear |-> FALSE, st |-> st, task |-> NoTask, result |-> NoResult]
Pending(st, t) ==
  [status |-> "pending", clear |-> FALSE, st |-> st, task |-> t, result |-> NoResult]

\* ------------------------------------------------------------------------
\* getDirectoryContents / getFileContent
\* ------------------------------------------------------------------------
\* getDirectoryContents after the answer resp to its fetch: the data is
\* stored and returned when response.ok, null (NoData) otherwise
DirFetched(st, path, resp) ==
  IF resp.ok
  THEN [st |-> [st EXCEPT !.fileSystemCache = CacheSet(@, path, resp.data)],
        contents |-> resp.data]
  ELSE [st |-> st, contents |-> NoData]

NullText == [null |-> TRUE, text |-> <<>>]
Text(t) == [null |-> FALSE, text |-> t]

DecodeErrorText == <<"E","r","r","o","r",":"," ","C","o","u","l","d"," ","n","o","t"," ","d","e","c","o","d","e"," ","f","i","l","e"," ","c","o","n","t","e","n","t",".">>

\* getFileContent answers from the cache: the path is cached and the cached
\* data has a truthy content
FileCached(st, path) ==
  /\ path \in DOMAIN st.fileSystemCache
  /\ st.fileSystemCache[path].content # <<>>

\* getFileContent, cached branch
FileFromCache(st, path) ==
  LET c == st.fileSystemCache[path].content
  IN IF AtobThrows(c) THEN Text(DecodeErrorText) ELSE Text(Atob(c))

\* getFileContent after the answer resp to its fetch
FileFetched(st, path, resp) ==
  IF ~ resp.ok THEN [st |-> st, content |-> NullText]
  ELSE IF resp.data.kind # "file" \/ resp.data.content = <<>>
  THEN [st |-> st, content |-> NullText]
  ELSE LET st2 == [st EXCEPT !.fileSystemCache = CacheSet(@, path, resp.data)]
       IN IF AtobThrows(resp.data.content)
          THEN [st |-> st2, content |-> NullText]
          ELSE [st |-> st2, content |-> Text(Atob(resp.data.content))]

\* ------------------------------------------------------------------------
\* handleCommand, case by case
\* ------------------------------------------------------------------------
\* case 'ls', after getDirectoryContents returned contents
LsItemLine(item) ==
  IF item.type = "dir" THEN OutLine("ls-dir", item.name) ELSE OutLine("ls-file", item.name)

LsRender(st, contents) ==
  IF contents.kind = "none" THEN Done(Append1(st, OutLine("ls-error", <<>>)))
  ELSE IF contents.kind = "file" THEN Threw(st)
  ELSE Done(AppendAll(st, [i \in 1..Len(contents.entries) |-> LsItemLine(contents.entries[i])]))

\* case 'ls'
LsStart(st) ==
  IF st.currentDirectory \in DOMAIN st.fileSystemCache
  THEN LsRender(st, st.fileSystemCache[st.currentDirectory])
  ELSE Pending(st, CmdTask("ls", st.currentDirectory, <<>>, <<>>))

IsFileEntry(item) == item.type = "file"
IsDirEntry(item) == item.type = "dir"
Names(items) == [i \in 1..Len(items) |-> items[i].name]

\* a tip that is rendered whether or not the listing names a file
CatTip_AlwaysTip(st, contents) ==
  IF contents.kind = "none" THEN Done(st)
  ELSE IF contents.kind = "file" THEN Threw(st)
  ELSE LET availableFiles == Names(SelectSeq(contents.entries, IsFileEntry))
       IN Done(Append1(st, OutLine("cat-tip", JoinWith(availableFiles, <<","," ">>))))

\* case 'cat', the tip after the not-found line
CatTip(st, contents) ==
  IF contents.kind = "none" THEN Done(st)
  ELSE IF contents.kind = "file" THEN Threw(st)
  ELSE LET availableFiles == Names(SelectSeq(contents.entries, IsFileEntry))
       IN IF Len(availableFiles) > 0
          THEN Done(Append1(st, OutLine("cat-tip", JoinWith(availableFiles, <<","," ">>))))
          ELSE Done(st)

\* case 'cat', after getFileContent returned fileContent
CatAfterRead(st, filename, fileContent) ==
  IF ~ fileContent.null
  THEN Done(Append1(st, OutLine("file-content", fileContent.text)))
  ELSE LET st2 == Append1(st, OutLine("cat-not-found", filename))
       IN IF st2.currentDirectory \in DOMAIN st2.fileSystemCache
          THEN CatTip(st2, st2.fileSystemCache[st2.currentDirectory])
          ELSE Pending(st2, CmdTask("catTip", st2.currentDirectory, filename, <<>>))

\* the path of the file cat reads
CatFilePath(dir, filename) ==
  IF dir = Root THEN <<"/">> \o filename ELSE dir \o <<"/">> \o filename

\* case 'cat'
CatStart(st, args) ==
  LET filename == IF Len(args) > 0 THEN args[1] ELSE <<>>
      filePath == CatFilePath(st.currentDirectory, filename)
  IN IF filename = <<>>
     THEN Done(AppendAll(st, << OutLine("cat-usage", <<>>), OutLine("cat-usage-tip", <<>>) >>))
     ELSE IF FileCached(st, filePath)
     THEN CatAfterRead(st, filename, FileFromCache(st, filePath))
     ELSE Pending(st, CmdTask("catFile", filePath, filename, <<>>))

\* case 'cd': targetDir and newPath
CdTarget(args) == IF Len(args) > 0 /\ args[1] # <<>> THEN args[1] ELSE <<"/">>

\* a join that forgets that the root already ends with the separator
CdNewPath_NoRootCase(dir, targetDir) ==
  IF targetDir = <<".",".">>
  THEN LET up == Substring(dir, 0, LastIndexOf(dir, "/"))
       IN IF up = <<>> THEN <<"/">> ELSE up
  ELSE IF StartsWith(targetDir, <<"/">>) THEN targetDir
  ELSE dir \o <<"/">> \o targetDir

CdNewPath(dir, targetDir) ==
  IF targetDir = <<".",".">>
  THEN LET up == Substring(dir, 0, LastIndexOf(dir, "/"))
       IN IF up = <<>> THEN <<"/">> ELSE up
  ELSE IF StartsWith(targetDir, <<"/">>) THEN targetDir
  ELSE IF dir = Root THEN <<"/">> \o targetDir ELSE dir \o <<"/">> \o targetDir

CdParentPath(newPath) ==
  LET up == Substring(newPath, 0, LastIndexOf(newPath, "/"))
  IN IF up = <<>> THEN <<"/">> ELSE up

CdDirName(newPath) == SubstringFrom(newPath, LastIndexOf(newPath, "/") + 1)

\* parentContents.find(item => item.name === dirName && item.type === 'dir')
CdTargetIsDirectory(parentContents, dirName) ==
  /\ parentContents.kind = "dir"
  /\ \E i \in 1..Len(parentContents.entries) :
       /\ parentContents.entries[i].name = dirName
       /\ parentContents.entries[i].type = "dir"

\* a change that is accepted without looking at the listing
CdAccepts_Always(newPath, parentContents) == TRUE

\* whether the change to newPath is accepted
CdAccepts(newPath, parentContents) ==
  newPath = <<"/">> \/ CdTargetIsDirectory(parentContents, CdDirName(newPath))

\* case 'cd', after getDirectoryContents(parentPath) returned parentContents
CdDecide(st, targetDir, newPath, parentContents) ==
  IF parentContents.kind = "file" THEN Threw(st)
  ELSE IF CdAccepts(newPath, parentContents)
  THEN Done([st EXCEPT !.currentDirectory = newPath])
  ELSE Done(Append1(st, OutLine("cd-error", targetDir)))

\* case 'cd'
CdStart(st, args) ==
  LET targetDir == CdTarget(args)
      newPath == CdNewPath(st.currentDirectory, targetDir)
      parentPath == CdParentPath(newPath)
  IN IF parentPath \in DOMAIN st.fileSystemCache
     THEN CdDecide(st, targetDir, newPath, st.fileSystemCache[parentPath])
     ELSE Pending(st, CmdTask("cd", parentPath, targetDir, newPath))

\* a clear that also goes back to the root directory
ClearCase_ResetsDirectory(st) ==
  Cleared([st EXCEPT !.terminal = << PromptLine(Root, <<>>) >>, !.currentDirectory = Root])

\* case 'clear': the output is wiped, a prompt for the current directory is
\* appended and {clear: true} is returned
ClearCase(st) ==
  Cleared([st EXCEPT !.terminal = << PromptLine(st.currentDirectory, <<>>) >>])

\* themes[themeName] is truthy: an own key of the registry, or a property
\* every object inherits from Object.prototype
ThemeLookupTruthy(themeName) == IsTheme(themeName) \/ themeName \in ObjectPrototypeKeys

\* setTheme and case 'themes' with an argument
ThemesSet(st, themeArg) ==
  IF ThemeLookupTruthy(themeArg)
  THEN Done(Append1([st EXCEPT !.currentTheme = themeArg], OutLine("theme-changed", themeArg)))
  ELSE Done(Append1(st, OutLine("theme-not-found", themeArg)))

\* case 'themes'
ThemesCase(st, args) ==
  IF Len(args) = 0 \/ args[1] = <<>>
  THEN Done(Append1(st, OutLine("themes-list", st.currentTheme)))
  ELSE ThemesSet(st, args[1])

\* case 'history': one line per entry of commandHistory
HistoryCase(st, hist) ==
  Done(AppendAll(st, [i \in 1..Len(hist) |-> OutLine("history", hist[i])]))

\* the commands that only append fixed text
InfoCommands ==
  { <<"h","e","l","p">>, <<"g","i","t","h","u","b">>, <<"l","i","n","k","e","d","i","n">>, <<"w","e","l","c","o","m","e">>, <<"w","h","o","a","m","i">>, <<"a","b","o","u","t">>, <<"e","d","u","c","a","t","i","o","n">>,
    <<"e","m","a","i","l">> }

\* a fallback that reports the command token alone
DefaultCase_TokenOnly(st, trimmedInput) ==
  IF ToLowerCase(trimmedInput) = <<"a","b","o","u","t"," ","m","e">>
  THEN Done(Append1(st, OutLine("about-me", <<>>)))
  ELSE Done(Append1(st, OutLine("not-found", Head(Split(trimmedInput)))))

\* default: the two-word phrase, or Command not found
DefaultCase(st, trimmedInput) ==
  IF ToLowerCase(trimmedInput) = <<"a","b","o","u","t"," ","m","e">>
  THEN Done(Append1(st, OutLine("about-me", <<>>)))
  ELSE Done(Append1(st, OutLine("not-found", trimmedInput)))

\* handleCommand up to its first suspension; hist is commandHistory
handleCommand(st, input, hist) ==
  LET trimmedInput == Trim(input)
      parts == Split(trimmedInput)
      command == Head(parts)
      args == Tail(parts)
      normalizedCommand == ToLowerCase(command)
  IN CASE normalizedCommand = <<"l","s">> -> LsStart(st)
       [] normalizedCommand = <<"c","a","t">> -> CatStart(st, args)
       [] normalizedCommand = <<"c","d">> -> CdStart(st, args)
       [] normalizedCommand = <<"c","l","e","a","r">> -> ClearCase(st)
       [] normalizedCommand = <<"t","h","e","m","e","s">> -> ThemesCase(st, args)
       [] normalizedCommand = <<"h","i","s","t","o","r","y">> -> HistoryCase(st, hist)
       [] normalizedCommand = <<"e","c","h","o">> -> Done(Append1(st, OutLine("echo-text", Join(args))))
       [] normalizedCommand \in {<<".">>, <<"p","w","d">>} ->
            Done(Append1(st, Line("info", st.currentDirectory, normalizedCommand)))
       [] normalizedCommand \in InfoCommands -> Done(Append1(st, OutLine("info", normalizedCommand)))
       [] OTHER -> DefaultCase(st, trimmedInput)

\* handleCommand resumed by the answer resp to the fetch of task t
resumeCommand(st, t, resp) ==
  CASE t.op = "ls" ->
         LET r == DirFetched(st, t.path, resp) IN LsRender(r.st, r.contents)
    [] t.op = "catFile" ->
         LET r == FileFetched(st, t.path, resp) IN CatAfterRead(r.st, t.arg, r.content)
    [] t.op = "catTip" ->
         LET r == DirFetched(st, t.path, resp) IN CatTip(r.st, r.contents)
    [] OTHER ->
         LET r == DirFetched(st, t.path, resp) IN CdDecide(r.st, t.arg, t.newPath, r.contents)

\* ------------------------------------------------------------------------
\* Autocomplete: suggestions and their application to the input
\* ------------------------------------------------------------------------
\* getBaseInput
getBaseInput(input) ==
  LET parts == Split(Trim(input))
  IN IF Len(parts) = 1 THEN <<>> ELSE Join(SubSeq(parts, 1, Len(parts) - 1))

\* the new hiddenInput.value applyCompletion computes from the current one
applyCompletion(value, completion) ==
  LET parts == Split(Trim(value))
  IN IF Len(parts) = 1 THEN completion \o <<" ">>
     ELSE Join([parts EXCEPT ![Len(parts)] = completion]) \o <<" ">>

\* getAutocompleteSuggestions, one part: the commands starting with command
CommandCompletions(command) ==
  LET Matches(c) == StartsWith(c, command) IN SelectSeq(commandList, Matches)

\* getThemeCompletions
getThemeCompletions(partial) ==
  LET Matches(t) == StartsWith(t, partial) IN SelectSeq(themes, Matches)

\* getFileCompletions after getDirectoryContents returned a listing
getFileCompletions(contents, partial) ==
  LET Matches(item) == item.type = "file" /\ StartsWith(item.name, partial)
  IN Names(SelectSeq(contents.entries, Matches))

\* getDirectoryCompletions after getDirectoryContents returned a listing; dir
\* is currentDirectory as read after the await
getDirectoryCompletions(contents, partial, dir) ==
  LET Matches(item) == item.type = "dir" /\ StartsWith(item.name, partial)
      directories == Names(SelectSeq(contents.entries, Matches))
  IN IF dir # Root /\ StartsWith(<<".",".">>, partial)
     THEN << <<".",".">> >> \o directories
     ELSE directories

\* the completions of a cat or cd argument once contents is known: thrown is
\* the TypeError of contents.filter on data that is not an array
ArgCompletions(op, contents, partial, dir) ==
  IF contents.kind = "none" THEN [thrown |-> FALSE, list |-> <<>>]
  ELSE IF contents.kind = "file" THEN [thrown |-> TRUE, list |-> <<>>]
  ELSE IF op = "acFile"
  THEN [thrown |-> FALSE, list |-> getFileCompletions(contents, partial)]
  ELSE [thrown |-> FALSE, list |-> getDirectoryCompletions(contents, partial, dir)]

\* the controller's display state, threaded through the autocomplete steps
Ui(sugg, idx, base, value, term) ==
  [suggestions |-> sugg, index |-> idx, baseInput |-> base, value |-> value,
   terminal |-> term]

DigitChars == <<"0","1","2","3","4","5","6","7","8","9">>
Digit(n) == IF n < 10 THEN << DigitChars[n + 1] >> ELSE << DigitChars[(n \div 10) + 1], DigitChars[(n % 10) + 1] >>

\* resetAutocompleteState
resetAutocompleteState(ui) ==
  [ui EXCEPT !.suggestions = <<>>, !.index = -1, !.baseInput = <<>>,
             !.terminal = RemoveCompletionDisplays(@)]

\* userInputSpan.textContent = value through a captured span
WriteSpan(term, span, value) == IF span = "live" THEN SetSpanText(term, value) ELSE term

\* applyCompletion on the display state
ApplyToUi(ui, span, completion) ==
  LET v == applyCompletion(ui.value, completion)
  IN [ui EXCEPT !.value = v, !.terminal = WriteSpan(@, span, v)]

\* showCompletionOptions: the old displays go, and the two new lines are put
\* after the prompt of the span; closest() on a null span throws, and an
\* insertion next to a prompt that left the document does nothing
showCompletionOptions(ui, span, currentIndex) ==
  LET cleaned == RemoveCompletionDisplays(ui.terminal)
      lines == << Line("completion-suggestions", <<>>, JoinWith(ui.suggestions, <<" "," "," ">>)),
                  Line("completion-indicator", Digit(currentIndex + 1),
                       ui.suggestions[currentIndex + 1]) >>
  IN IF span = "live"
     THEN [ui EXCEPT !.terminal = InsertAfterPrompt(cleaned, lines)]
     ELSE [ui EXCEPT !.terminal = cleaned]

\* showNoMatchesMessage
showNoMatchesMessage(ui, span) ==
  IF span = "live"
  THEN [ui EXCEPT !.terminal = InsertAfterPrompt(@, << OutLine("no-match", <<>>) >>)]
  ELSE ui

\* a session start that keeps a single match as a session
SessionStarted_KeepsSingle(ui, span, currentInput, suggestions) ==
  IF Len(suggestions) = 0 THEN showNoMatchesMessage(ui, span)
  ELSE LET ui2 == [ui EXCEPT !.suggestions = suggestions, !.index = 0,
                             !.baseInput = getBaseInput(currentInput)]
       IN showCompletionOptions(ApplyToUi(ui2, span, suggestions[1]), span, 0)

\* startNewAutocompleteSession after the await of the suggestions
SessionStarted(ui, span, currentInput, suggestions) ==
  IF Len(suggestions) = 0 THEN showNoMatchesMessage(ui, span)
  ELSE LET ui2 == [ui EXCEPT !.suggestions = suggestions, !.index = 0,
                             !.baseInput = getBaseInput(currentInput)]
           ui3 == ApplyToUi(ui2, span, suggestions[1])
       IN IF Len(suggestions) = 1
          THEN resetAutocompleteState(ui3)
          ELSE showCompletionOptions(ui3, span, 0)

\* (autocompleteIndex + 1) % autocompleteSuggestions.length
NextIndex(index, count) == (index + 1) % count

\* cycleToNextSuggestion
cycleToNextSuggestion(ui, span) ==
  IF Len(ui.suggestions) = 0 THEN ui
  ELSE LET i == NextIndex(ui.index, Len(ui.suggestions))
           ui2 == ApplyToUi([ui EXCEPT !.index = i], span, ui.suggestions[i + 1])
       IN showCompletionOptions(ui2, span, i)

\* getAutocompleteSuggestions up to its first suspension: kind "list" with
\* the suggestions, "thrown", or "pending" with the task of the fetch
Suggested(list) == [kind |-> "list", list |-> list, task |-> NoTask]
SuggestThrown == [kind |-> "thrown", list |-> <<>>, task |-> NoTask]
SuggestPending(t) == [kind |-> "pending", list |-> <<>>, task |-> t]

getAutocompleteSuggestions(input, dir, cache, span) ==
  LET parts == Split(Trim(input))
      command == ToLowerCase(parts[1])
      arg == IF Len(parts) >= 2 THEN parts[2] ELSE <<>>
      op == IF command = <<"c","a","t">> THEN "acFile" ELSE "acDir"
  IN IF Len(parts) = 1 THEN Suggested(CommandCompletions(command))
     ELSE IF Len(parts) # 2 THEN Suggested(<<>>)
     ELSE IF command = <<"t","h","e","m","e","s">> THEN Suggested(getThemeCompletions(arg))
     ELSE IF command \in { <<"c","a","t">>, <<"c","d">> }
     THEN IF dir \in DOMAIN cache
          THEN LET r == ArgCompletions(op, cache[dir], arg, dir)
               IN IF r.thrown THEN SuggestThrown ELSE Suggested(r.list)
          ELSE SuggestPending(Task(op, dir, arg, <<>>, Trim(input), span))
     ELSE Suggested(<<>>)

\* ------------------------------------------------------------------------
\* State
\* ------------------------------------------------------------------------
VARIABLES
  commandHistory,          \* terminal-events.js: the history log
  historyIndex,            \* -1 = live, c >= 0 = the (c+1)-th most recent entry
  autocompleteSuggestions, \* the candidates of the session, <<>> when idle
  autocompleteIndex,       \* the cycle index, -1 when idle
  autocompleteBaseInput,   \* the tokens before the one being completed
  hiddenInput,             \* hiddenInput.value, the input buffer
  terminal,                \* the rendered lines, in document order
  currentDirectory,        \* terminal-logic.js: the working directory
  fileSystemCache,         \* path -> data answered by the remote
  currentTheme,            \* theme-manager.js: the active theme key
  tasks,                   \* the suspended asynchronous functions
  typable,                 \* the lines the user enters in this run
  limit,                   \* the bounds of this run: hist, tasks
  ev,                      \* the event handled last and how it ended
  run                      \* the run of history or cycle keys in progress, where counted

vars ==
  << commandHistory, historyIndex, autocompleteSuggestions, autocompleteIndex,
     autocompleteBaseInput, hiddenInput, terminal, currentDirectory,
     fileSystemCache, currentTheme, tasks, typable, limit, ev, run >>

\* the event record: op names the handler, line is the trimmed line it
\* worked on, res how it ended, task the request it answered or issued
\* (ok: whether the fetch it resumed from was answered with response.ok)
Ev(op, line, res, task) ==
  [op |-> op, line |-> line, res |-> res, task |-> task, ok |-> FALSE, out |-> NoResult]

\* the run record: kind "up"/"down" counts the history keys pressed since the
\* live state with an empty buffer, kind "cycle" the cycle-trigger presses
\* since the last activation, that press included
Run(kind, ups, downs, presses) ==
  [kind |-> kind, ups |-> ups, downs |-> downs, presses |-> presses]
NoRun == Run("none", 0, 0, 0)

CurState == State(terminal, currentDirectory, fileSystemCache, currentTheme)
CurUi ==
  Ui(autocompleteSuggestions, autocompleteIndex, autocompleteBaseInput, hiddenInput,
     terminal)

\* the run after a cycle-trigger press
CycleRun ==
  IF Trim(hiddenInput) = <<>> THEN NoRun
  ELSE IF /\ autocompleteSuggestions # <<>>
          /\ autocompleteBaseInput = getBaseInput(Trim(hiddenInput))
  THEN IF run.kind = "cycle" /\ run.presses < MaxPresses
       THEN [run EXCEPT !.presses = @ + 1]
       ELSE NoRun
  ELSE Run("cycle", 0, 0, 1)

\* the run after a history-previous press
UpRun ==
  IF run.kind = "up"
  THEN IF run.ups < Len(commandHistory) THEN [run EXCEPT !.ups = @ + 1] ELSE NoRun
  ELSE IF historyIndex = -1 /\ hiddenInput = <<>> /\ Len(commandHistory) >= 1
  THEN Run("up", 1, 0, 0)
  ELSE NoRun

\* the run after a history-next press
DownRun ==
  IF run.kind \in {"up", "down"} /\ run.downs < run.ups
  THEN [run EXCEPT !.kind = "down", !.downs = @ + 1]
  ELSE NoRun

\* document.getElementById('user-input') at the start of a handler
SpanNow == IF HasPrompt(terminal) THEN "live" ELSE "null"

\* the spans captured by suspended activations lose their document when the
\* first prompt is removed or the output is wiped
Detach(ts) == [i \in 1..Len(ts) |-> [ts[i] EXCEPT !.span = IF @ = "live" THEN "detached" ELSE @]]

\* the suspended activations learn that the line was edited or submitted
MarkStale(ts) == [i \in 1..Len(ts) |-> [ts[i] EXCEPT !.stale = IsAcTask(ts[i])]]

SetUi(ui) ==
  /\ autocompleteSuggestions' = ui.suggestions
  /\ autocompleteIndex' = ui.index
  /\ autocompleteBaseInput' = ui.baseInput
  /\ hiddenInput' = ui.value
  /\ terminal' = ui.terminal

SetState(st) ==
  /\ terminal' = st.terminal
  /\ currentDirectory' = st.currentDirectory
  /\ fileSystemCache' = st.fileSystemCache
  /\ currentTheme' = st.currentTheme

\* resetTerminal: the welcome message and the first prompt
InitTerminal == << OutLine("welcome", <<>>), PromptLine(Root, <<>>) >>

\* the constants of a run: its lines and its bounds
frame == << typable, limit >>

InitWith(lines, maxHist, maxTasks) ==
  /\ commandHistory = <<>>
  /\ historyIndex = -1
  /\ autocompleteSuggestions = <<>>
  /\ autocompleteIndex = -1
  /\ autocompleteBaseInput = <<>>
  /\ hiddenInput = <<>>
  /\ terminal = InitTerminal
  /\ currentDirectory = Root
  /\ fileSystemCache = <<>>
  /\ currentTheme = <<"c","a","t","p","p","u","c","c","i","n","-","m","o","c","h","a">>
  /\ tasks = <<>>
  /\ typable = lines
  /\ limit = [hist |-> maxHist, tasks |-> maxTasks]
  /\ ev = Ev("Init", <<>>, "none", NoTask)
  /\ run = NoRun

\* ------------------------------------------------------------------------
\* Key and input events
\* ------------------------------------------------------------------------
\* the 'input' listener: the field now holds v
InputEvent(v) ==
  /\ v # hiddenInput
  /\ SetUi(resetAutocompleteState([CurUi EXCEPT !.value = v, !.terminal = SetSpanText(@, v)]))
  /\ tasks' = MarkStale(tasks)
  /\ ev' = Ev("Input", v, "none", NoTask)
  /\ UNCHANGED << commandHistory, historyIndex, currentDirectory, fileSystemCache,
                  currentTheme, frame >>

\* keydown of a key the handler has no branch for (a character, a modifier)
KeyOther ==
  /\ SetUi(resetAutocompleteState(CurUi))
  /\ ev' = Ev("KeyOther", <<>>, "none", NoTask)
  /\ UNCHANGED << commandHistory, historyIndex, currentDirectory, fileSystemCache,
                  currentTheme, tasks, frame >>

\* the number of No completions found lines on display
NoMatchLines(term) == Cardinality({i \in 1..Len(term) : term[i].kind = "no-match"})

\* keydown Ctrl+U
KeyCtrlU ==
  LET currentInput == Trim(hiddenInput)
      continuing == /\ Len(autocompleteSuggestions) > 0
                    /\ autocompleteBaseInput = getBaseInput(currentInput)
      s == getAutocompleteSuggestions(currentInput, currentDirectory, fileSystemCache,
                                      SpanNow)
  IN /\ NoMatchLines(terminal) < MaxNoMatch
     /\ IF currentInput = <<>>
        THEN /\ ev' = Ev("CtrlU", currentInput, "empty", NoTask)
                        /\ UNCHANGED << autocompleteSuggestions, autocompleteIndex,
                             autocompleteBaseInput, hiddenInput, terminal, tasks >>
        ELSE IF continuing
        THEN /\ SetUi(cycleToNextSuggestion(CurUi, SpanNow))
             /\ ev' = Ev("CtrlU", currentInput, "cycled", NoTask)
             /\ UNCHANGED tasks
        ELSE IF s.kind = "pending"
        THEN /\ Len(tasks) < limit.tasks
             /\ tasks' = Append(tasks, s.task)
             /\ ev' = Ev("CtrlU", currentInput, "pending", s.task)
             /\ UNCHANGED << autocompleteSuggestions, autocompleteIndex,
                             autocompleteBaseInput, hiddenInput, terminal >>
        ELSE IF s.kind = "thrown"
        THEN /\ ev' = Ev("CtrlU", currentInput, "threw", NoTask)
             /\ UNCHANGED << autocompleteSuggestions, autocompleteIndex,
                             autocompleteBaseInput, hiddenInput, terminal, tasks >>
        ELSE /\ SetUi(SessionStarted(CurUi, SpanNow, currentInput, s.list))
             /\ ev' = Ev("CtrlU", currentInput, "started", NoTask)
             /\ UNCHANGED tasks
     /\ UNCHANGED << commandHistory, historyIndex, currentDirectory, fileSystemCache,
                     currentTheme, frame >>

\* keydown Ctrl+L
\* a clear-screen shortcut that starts the session over
KeyCtrlL_ResetsSession ==
  /\ autocompleteSuggestions' = <<>>
  /\ autocompleteIndex' = -1
  /\ autocompleteBaseInput' = <<>>
  /\ terminal' = << PromptLine(Root, <<>>) >>
  /\ hiddenInput' = <<>>
  /\ tasks' = Detach(tasks)
  /\ ev' = Ev("CtrlL", <<>>, "none", NoTask)
  /\ commandHistory' = <<>>
  /\ historyIndex' = -1
  /\ currentDirectory' = Root
  /\ UNCHANGED << fileSystemCache, currentTheme, frame >>

KeyCtrlL ==
  /\ autocompleteSuggestions' = <<>>
  /\ autocompleteIndex' = -1
  /\ autocompleteBaseInput' = <<>>
  /\ terminal' = << PromptLine(currentDirectory, <<>>) >>
  /\ hiddenInput' = <<>>
  /\ tasks' = Detach(tasks)
  /\ ev' = Ev("CtrlL", <<>>, "none", NoTask)
  /\ UNCHANGED << commandHistory, historyIndex, currentDirectory, fileSystemCache,
                  currentTheme, frame >>

\* an index counted from the oldest entry
HistoryAt_FromOldest(hist, i) == hist[i + 1]

\* commandHistory[commandHistory.length - 1 - i]
HistoryAt(hist, i) == hist[Len(hist) - i]

\* ArrowUp moves the cursor
ArrowUpMoves(hist, index) == Len(hist) > 0 /\ index < Len(hist) - 1

\* a history-next that keeps the newest entry in the field at live
ArrowDownValue_KeepsLast(hist, index) ==
  IF index > 0 THEN HistoryAt(hist, index - 1) ELSE HistoryAt(hist, 0)

\* what ArrowDown loads into the field from cursor index >= 0
ArrowDownValue(hist, index) == IF index > 0 THEN HistoryAt(hist, index - 1) ELSE <<>>

\* keydown ArrowUp
KeyArrowUp ==
  LET ui == resetAutocompleteState(CurUi)
      moves == ArrowUpMoves(commandHistory, historyIndex)
      historicalCommand == HistoryAt(commandHistory, historyIndex + 1)
  IN /\ IF moves
        THEN /\ historyIndex' = historyIndex + 1
             /\ SetUi([ui EXCEPT !.value = historicalCommand,
                                 !.terminal = SetSpanText(@, historicalCommand)])
        ELSE /\ historyIndex' = historyIndex
             /\ SetUi(ui)
     /\ ev' = Ev("ArrowUp", <<>>, IF moves THEN "moved" ELSE "none", NoTask)
     /\ UNCHANGED << commandHistory, currentDirectory, fileSystemCache, currentTheme,
                     tasks, frame >>

\* keydown ArrowDown
KeyArrowDown ==
  LET ui == resetAutocompleteState(CurUi)
      historicalCommand == ArrowDownValue(commandHistory, historyIndex)
  IN /\ IF historyIndex >= 0
        THEN /\ historyIndex' = historyIndex - 1
             /\ SetUi([ui EXCEPT !.value = historicalCommand,
                                 !.terminal = SetSpanText(@, historicalCommand)])
        ELSE /\ historyIndex' = historyIndex
             /\ SetUi(ui)
     /\ ev' = Ev("ArrowDown", <<>>, IF historyIndex >= 0 THEN "moved" ELSE "none", NoTask)
     /\ UNCHANGED << commandHistory, currentDirectory, fileSystemCache, currentTheme,
                     tasks, frame >>

\* the first prompt replaced by the echo of the command: the echo is inserted
\* before the prompt and the prompt is removed
EchoOverPrompt(term, dir, command) ==
  [term EXCEPT ![FirstPrompt(term)] = EchoLine(dir, command)]

\* an Enter handler whose catch block ends the handler
Finished_CatchReturns(r) ==
  IF r.status = "threw" THEN Append1(r.st, OutLine("exec-error", <<>>))
  ELSE Append1(r.st, PromptLine(r.st.currentDirectory, <<>>))

\* the end of the Enter handler after handleCommand settled without a reset:
\* the error line of the catch block, the new prompt, the emptied field
Finished(r) ==
  LET st == IF r.status = "threw" THEN Append1(r.st, OutLine("exec-error", <<>>)) ELSE r.st
  IN Append1(st, PromptLine(st.currentDirectory, <<>>))

\* keydown Enter
KeyEnter ==
  LET ui == resetAutocompleteState(CurUi)
      command == Trim(hiddenInput)
      hist == Append(commandHistory, command)
      isClear == ToLowerCase(command) = <<"c","l","e","a","r">>
      st0 == State(ui.terminal, currentDirectory, fileSystemCache, currentTheme)
      st1 == [st0 EXCEPT !.terminal = EchoOverPrompt(@, currentDirectory, command)]
      r == handleCommand(IF isClear THEN st0 ELSE st1, command, hist)
  IN /\ autocompleteSuggestions' = <<>>
     /\ autocompleteIndex' = -1
     /\ autocompleteBaseInput' = <<>>
     /\ UNCHANGED frame
     /\ IF command = <<>>
        THEN /\ terminal' = ui.terminal
             /\ ev' = Ev("Enter", command, "empty", NoTask)
             /\ UNCHANGED << commandHistory, historyIndex, hiddenInput, currentDirectory,
                             fileSystemCache, currentTheme, tasks >>
        ELSE /\ Len(commandHistory) < limit.hist
             /\ commandHistory' = hist
             /\ historyIndex' = -1
             /\ IF ~ isClear /\ SpanNow = "null"
                THEN /\ terminal' = ui.terminal
                     /\ tasks' = MarkStale(tasks)
                     /\ ev' = Ev("Enter", command, "nospan", NoTask)
                     /\ UNCHANGED << hiddenInput, currentDirectory, fileSystemCache,
                                     currentTheme >>
                ELSE IF r.status = "pending"
                THEN /\ Len(tasks) < limit.tasks
                     /\ SetState(r.st)
                     /\ tasks' = Append(Detach(MarkStale(tasks)), r.task)
                     /\ ev' = Ev("Enter", command, "pending", r.task)
                     /\ UNCHANGED hiddenInput
                ELSE IF r.clear
                THEN /\ SetState(r.st)
                     /\ hiddenInput' = IF isClear THEN <<>> ELSE hiddenInput
                     /\ tasks' = Detach(MarkStale(tasks))
                     /\ ev' = [Ev("Enter", command, "clear", NoTask) EXCEPT !.out = r.result]
                ELSE /\ SetState(Finished(r))
                     /\ hiddenInput' = <<>>
                     /\ tasks' = Detach(MarkStale(tasks))
                     /\ ev' = [Ev("Enter", command, r.status, NoTask) EXCEPT !.out = r.result]

\* ------------------------------------------------------------------------
\* The answer to a fetch
\* ------------------------------------------------------------------------
\* the fetch of tasks[i] is answered (ok: by the remote; otherwise it fails in
\* transport) and the function suspended on it runs on
FetchAnswer(i, ok) ==
  LET t == tasks[i]
      resp == IF ok THEN Remote(t.path) ELSE FetchError
      rest == RemoveAt(tasks, i)
      r == resumeCommand(CurState, t, resp)
      d == DirFetched(CurState, t.path, resp)
      c == ArgCompletions(t.op, d.contents, t.arg, currentDirectory)
      ui == SessionStarted(CurUi, t.span, t.input, c.list)
  IN /\ UNCHANGED << commandHistory, historyIndex, frame >>
     /\ IF IsCmdTask(t)
        THEN /\ IF r.status = "pending"
                THEN /\ SetState(r.st)
                     /\ tasks' = Append(rest, r.task)
                     /\ UNCHANGED hiddenInput
                ELSE /\ SetState(Finished(r))
                     /\ tasks' = rest
                     /\ hiddenInput' = <<>>
             /\ ev' = [Ev("Answer", t.arg, r.status, t) EXCEPT !.ok = resp.ok, !.out = r.result]
             /\ UNCHANGED << autocompleteSuggestions, autocompleteIndex,
                             autocompleteBaseInput >>
        ELSE /\ tasks' = rest
             /\ fileSystemCache' = d.st.fileSystemCache
             /\ UNCHANGED << currentDirectory, currentTheme >>
             /\ IF c.thrown
                THEN /\ ev' = [Ev("Answer", t.input, "threw", t) EXCEPT !.ok = resp.ok]
                     /\ UNCHANGED << autocompleteSuggestions, autocompleteIndex,
                                     autocompleteBaseInput, hiddenInput, terminal >>
                ELSE /\ SetUi(ui)
                     /\ ev' = [Ev("Answer", t.input, "started", t) EXCEPT !.ok = resp.ok]

\* ------------------------------------------------------------------------
\* Specifications
\* ------------------------------------------------------------------------
\* every event, the runs of keys not counted
Next ==
  \/ (\E v \in typable : InputEvent(v)) /\ UNCHANGED run
  \/ KeyOther /\ UNCHANGED run
  \/ KeyCtrlU /\ UNCHANGED run
  \/ KeyCtrlL /\ UNCHANGED run
  \/ KeyArrowUp /\ UNCHANGED run
  \/ KeyArrowDown /\ UNCHANGED run
  \/ KeyEnter /\ UNCHANGED run
  \/ (\E i \in 1..Len(tasks) : \E ok \in BOOLEAN : FetchAnswer(i, ok)) /\ UNCHANGED run

\* every event, the runs of history keys and of cycle-trigger presses counted;
\* an answer is no keystroke and leaves the run as it is
NextRun ==
  \/ (\E v \in typable : InputEvent(v)) /\ run' = NoRun
  \/ KeyOther /\ run' = NoRun
  \/ KeyCtrlU /\ run' = CycleRun
  \/ KeyCtrlL /\ run' = NoRun
  \/ KeyArrowUp /\ run' = UpRun
  \/ KeyArrowDown /\ run' = DownRun
  \/ KeyEnter /\ run' = NoRun
  \/ (\E i \in 1..Len(tasks) : \E ok \in BOOLEAN : FetchAnswer(i, ok)) /\ UNCHANGED run

\* a session that changes directories
NavLines == { <<"c","d"," ","j","s">>, <<"c","d"," ",".",".">>, <<"c","d"," ","/","j","s","/">>, <<"c","d"," ","/","j","s">> }
NavHist == 2
NavTasks == 1
Init == InitWith(NavLines, NavHist, NavTasks)
Spec == Init /\ [][Next]_vars

\* a session that changes into something that is a file
NavFileLines == { <<"c","d"," ","j","s">>, <<"c","d"," ","i","c","o","n","/","x">> }
NavFileHist == 2
NavFileTasks == 1
InitNavFile == InitWith(NavFileLines, NavFileHist, NavFileTasks)
SpecNavFile == InitNavFile /\ [][Next]_vars

\* a session that lists, clears and submits blank lines
SessionLines == { <<>>, <<" ">>, <<"l","s">>, <<"c","l","e","a","r">>, <<"c","d"," ","j","s">> }
SessionHist == 2
SessionTasks == 1
InitSession == InitWith(SessionLines, SessionHist, SessionTasks)
SpecSession == InitSession /\ [][Next]_vars

\* a session that recalls history
HistLines == { <<>>, <<"l","s">>, <<" ","p","w","d"," ">> }
HistHist == 3
HistTasks == 1
InitHist == InitWith(HistLines, HistHist, HistTasks)
SpecHist == InitHist /\ [][NextRun]_vars

\* a session that completes commands and arguments
AutoLines == { <<>>, <<"c">>, <<"c","a","t"," ","i">> }
AutoHist == 1
AutoTasks == 2
InitAuto == InitWith(AutoLines, AutoHist, AutoTasks)
SpecAuto == InitAuto /\ [][NextRun]_vars


\* a session that activates completion with no, one and several candidates
CompleteLines == { <<"x">>, <<"t","h">>, <<"c">>, <<"l","s">>, <<"c","a","t"," ","i">> }
CompleteHist == 1
CompleteTasks == 1
InitComplete == InitWith(CompleteLines, CompleteHist, CompleteTasks)
SpecComplete == InitComplete /\ [][Next]_vars

\* a session that asks for completions of every kind, below the root too
SuggestLines == { <<"t","h">>, <<"c","a","t"," ","i">>, <<"c","d"," ",".">>, <<"c","d"," ","j","s">> }
SuggestHist == 1
SuggestTasks == 2
InitSuggest == InitWith(SuggestLines, SuggestHist, SuggestTasks)
SpecSuggest == InitSuggest /\ [][Next]_vars

\* a session that reads files and lists directories again and again
CacheLines == { <<"c","a","t"," ","i","c","o","n">>, <<"c","a","t"," ","n","i","l">>, <<"c","d"," ","n","i","l","/","x">> }
CacheHist == 2
CacheTasks == 1
InitCache == InitWith(CacheLines, CacheHist, CacheTasks)
SpecCache == InitCache /\ [][Next]_vars

\* a session of commands that fail
FailLines == { <<"c","a","t"," ","z","z">>, <<"c","d"," ","i","c","o","n","/","x">> }
FailHist == 2
FailTasks == 1
InitFail == InitWith(FailLines, FailHist, FailTasks)
\* no fetch is left unanswered for ever: the oldest outstanding one is
\* answered in the end, with a response or with a failure
OldestAnswerArrives ==
  /\ tasks # <<>>
  /\ \E ok \in BOOLEAN : FetchAnswer(1, ok)
  /\ UNCHANGED run
SpecFail == InitFail /\ [][Next]_vars /\ WF_vars(OldestAnswerArrives)

\* a session that reads a missing file, at the root and in a directory that
\* holds no files
CatLines == { <<"c","a","t"," ","z","z">>, <<"c","d"," ","j","s">> }
CatHist == 2
CatTasks == 1
InitCat == InitWith(CatLines, CatHist, CatTasks)
SpecCat == InitCat /\ [][Next]_vars

\* a session that reads files by relative and by absolute names
ReadLines == { <<"c","a","t"," ","i","c","o","n">>, <<"c","a","t"," ","/","i","c","o","n">>, <<"c","d"," ","j","s">> }
ReadHist == 2
ReadTasks == 1
InitRead == InitWith(ReadLines, ReadHist, ReadTasks)
SpecRead == InitRead /\ [][Next]_vars

\* a session of words the interpreter does not know, and of the phrase
WordsLines == { <<"z","z"," ","y">>, <<"c","d"," ","j","s">>, <<"A","b","o","u","t"," ","M","e">>, <<"a","b","o","u","t">> }
WordsHist == 2
WordsTasks == 1
InitWords == InitWith(WordsLines, WordsHist, WordsTasks)
SpecWords == InitWords /\ [][Next]_vars

\* a session that selects themes, lists and clears with an argument
ThemeLines == { <<"t","h","e","m","e","s"," ","g","r","u","v","b","o","x">>, <<"t","h","e","m","e","s"," ","c","o","n","s","t","r","u","c","t","o","r">>, <<"t","h","e","m","e","s"," ","z","z">>, <<"c","l","e","a","r"," ","x">>, <<"l","s">> }
ThemeHist == 2
ThemeTasks == 1
SpecTheme == InitWith(ThemeLines, ThemeHist, ThemeTasks) /\ [][Next]_vars

\* a session that reads a file whose content no base64 decoder accepts
DecodeLines == { <<"c","a","t"," ","r","a","w">>, <<"c","a","t"," ","i","c","o","n">> }
DecodeHist == 2
DecodeTasks == 1
SpecDecode == InitWith(DecodeLines, DecodeHist, DecodeTasks) /\ [][Next]_vars

\* a session that completes file names in a directory where one of the
\* names holds a space
SpaceLines == { <<"c","d"," ","j","s","/","l","i","b">>, <<"c","a","t"," ","m">>, <<"c","a","t"," ","u">> }
SpaceHist == 1
SpaceTasks == 1
SpecSpace == InitWith(SpaceLines, SpaceHist, SpaceTasks) /\ [][Next]_vars
\* ------------------------------------------------------------------------
\* Vocabulary of the properties
\* ------------------------------------------------------------------------
\* the number of rendered lines of kind k
Count(term, k) == Cardinality({i \in 1..Len(term) : term[i].kind = k})

\* a line of nothing but white space
IsBlank(s) == \A i \in 1..Len(s) : s[i] = " "

\* the tokens of a submitted line and its command word
Tokens(line) == Split(line)
CommandWord(line) == ToLowerCase(Tokens(line)[1])
IsCdLine(line) == line # <<>> /\ CommandWord(line) = <<"c","d">>

\* Path Resolver of the specification: the position of the last separator,
\* the parent and the leaf of a path, and resolve(current, target)
LastSlash(p) == IF \E i \in 1..Len(p) : p[i] = "/"
                THEN CHOOSE i \in 1..Len(p) : p[i] = "/" /\ \A j \in 1..Len(p) : p[j] = "/" => j <= i
                ELSE 0
SpecParent(p) == IF LastSlash(p) <= 1 THEN Root ELSE SubSeq(p, 1, LastSlash(p) - 1)
SpecLeaf(p) == SubSeq(p, LastSlash(p) + 1, Len(p))
SpecResolve(current, target) ==
  IF target = <<>> THEN Root
  ELSE IF target = <<".",".">> THEN SpecParent(current)
  ELSE IF Head(target) = "/" THEN target
  ELSE IF current = Root THEN Root \o target
  ELSE current \o Root \o target

\* the target a cd line names
SpecTarget(line) == IF Len(Tokens(line)) >= 2 THEN Tokens(line)[2] ELSE <<>>

\* the acceptance rule of the specification, on the listing the command
\* obtained for the parent of the candidate (NoData: it obtained none)
SpecAccepts(cand, listing) ==
  \/ cand = Root
  \/ /\ listing.kind = "dir"
     /\ \E i \in 1..Len(listing.entries) :
          listing.entries[i] = Entry(SpecLeaf(cand), "dir")

\* this step settles a cd: at once on Enter, or on the answer to its fetch
CdSettles ==
  \/ ev'.op = "Enter" /\ IsCdLine(ev'.line) /\ ev'.res \in {"done", "threw"}
  \/ ev'.op = "Answer" /\ ev'.task.op = "cd"

\* the candidate path of the cd this step settles
CdCandidate ==
  IF ev'.op = "Enter"
  THEN SpecResolve(currentDirectory, SpecTarget(ev'.line))
  ELSE ev'.task.newPath

\* the listing the cd this step settles obtained for the parent of its
\* candidate: the cached one on Enter, the answer of the remote otherwise
CdListing ==
  IF ev'.op = "Enter"
  THEN IF SpecParent(CdCandidate) \in DOMAIN fileSystemCache
       THEN fileSystemCache[SpecParent(CdCandidate)]
       ELSE NoData
  ELSE IF ev'.ok THEN Remote(ev'.task.path).data ELSE NoData

\* the buffer after a candidate was applied on the base input
Applied(base, cand) == IF base = <<>> THEN cand \o <<" ">> ELSE base \o <<" ">> \o cand \o <<" ">>

\* the display state of the autocomplete session
acVars == << autocompleteSuggestions, autocompleteIndex, autocompleteBaseInput >>

\* ------------------------------------------------------------------------
\* Properties
\* ------------------------------------------------------------------------
\* C1: the answer to a suggest request whose line was edited or submitted
\* since the activation is discarded: the step that handles it changes
\* neither the input buffer, nor the autocomplete session, nor the output.
StaleSuggestDiscarded ==
  [][ (ev'.op = "Answer" /\ IsAcTask(ev'.task) /\ ev'.task.stale)
      => UNCHANGED << hiddenInput, acVars, terminal >> ]_vars

\* C2: the step that settles a cd that is not accepted leaves the working
\* directory as it was and adds exactly one no-such-directory line and no
\* other error line; and the working directory changes in no step but the
\* one that settles an accepted cd.
FailedCdOnlyReportsError ==
  [][ /\ (CdSettles /\ ~ SpecAccepts(CdCandidate, CdListing))
         => /\ currentDirectory' = currentDirectory
            /\ Count(terminal', "cd-error") = Count(terminal, "cd-error") + 1
            /\ Count(terminal', "exec-error") = Count(terminal, "exec-error")
      /\ currentDirectory' # currentDirectory
         => CdSettles /\ SpecAccepts(CdCandidate, CdListing) ]_vars

\* C3: a cd is accepted exactly when resolve(current, target) is the root or
\* the listing of its parent has a Directory entry with its leaf name, the
\* root also when the fetch of the listing failed; an accepted cd makes the
\* candidate the working directory and a rejected one leaves it; and a cd
\* whose parent listing is not cached decides nothing before the answer.
CdAcceptedExactlyWhen ==
  [][ /\ (ev'.op = "Enter" /\ IsCdLine(ev'.line) /\ ev'.res = "pending")
         => /\ ev'.task.newPath = SpecResolve(currentDirectory, SpecTarget(ev'.line))
            /\ ev'.task.path = SpecParent(ev'.task.newPath)
            /\ ev'.task.path \notin DOMAIN fileSystemCache
            /\ currentDirectory' = currentDirectory
            /\ Count(terminal', "cd-error") = Count(terminal, "cd-error")
      /\ (ev'.op = "Enter" /\ IsCdLine(ev'.line) /\ ev'.res \in {"done", "threw"})
         => SpecParent(CdCandidate) \in DOMAIN fileSystemCache
      /\ CdSettles
         => IF SpecAccepts(CdCandidate, CdListing)
            THEN /\ currentDirectory' = CdCandidate
                 /\ Count(terminal', "cd-error") = Count(terminal, "cd-error")
            ELSE /\ currentDirectory' = currentDirectory
                 /\ Len(terminal') > Len(RemoveCompletionDisplays(terminal)) ]_vars

\* C3 witness: cd js from / then cd .. from /js has brought the root back
CdJsThenUpWitness ==
  /\ commandHistory = << <<"c","d"," ","j","s">>, <<"c","d"," ",".",".">> >>
  /\ ev.op \in {"Enter", "Answer"}
  /\ ev.res = "done"
  /\ currentDirectory = Root
  /\ Count(terminal, "cd-error") = 0
  /\ tasks = <<>>

\* C4: the working directory starts with / and ends with / only when it is
\* the root.
WorkingDirectoryAbsolute ==
  /\ currentDirectory # <<>>
  /\ Head(currentDirectory) = "/"
  /\ currentDirectory = Root \/ currentDirectory[Len(currentDirectory)] # "/"

\* C4 witness: below the root, a cd to an absolute target with a trailing
\* slash was refused
TrailingSlashRefusedWitness ==
  /\ currentDirectory = <<"/","j","s">>
  /\ commandHistory = << <<"c","d"," ","j","s">>, <<"c","d"," ","/","j","s","/">> >>
  /\ Count(terminal, "cd-error") = 1
  /\ tasks = <<>>

\* C5 as claimed: after clear was executed the history log is empty, the
\* cursor is live, the working directory is / and the cache is empty.
ClearResetsSession ==
  (ev.op = "Enter" /\ ev.res = "clear")
  => /\ commandHistory = <<>>
     /\ historyIndex = -1
     /\ currentDirectory = Root
     /\ fileSystemCache = <<>>

\* C5 amended: executing clear wipes the output down to one empty prompt for
\* the working directory; the history log keeps its entries and gains the
\* submitted line, the cursor becomes live, and the working directory and
\* the cache keep their values.
ClearKeepsSession ==
  [][ (ev'.op = "Enter" /\ ev'.line # <<>> /\ CommandWord(ev'.line) = <<"c","l","e","a","r">>
         /\ ev'.res # "nospan")
      => /\ terminal' = << PromptLine(currentDirectory, <<>>) >>
         /\ commandHistory' = Append(commandHistory, ev'.line)
         /\ historyIndex' = -1
         /\ currentDirectory' = currentDirectory
         /\ fileSystemCache' = fileSystemCache ]_vars

\* C5 witness: clear was executed below the root with a listing cached
ClearBelowRootWitness ==
  /\ ev.op = "Enter"
  /\ ev.res = "clear"
  /\ commandHistory = << <<"c","d"," ","j","s">>, <<"c","l","e","a","r">> >>
  /\ currentDirectory = <<"/","j","s">>
  /\ fileSystemCache # <<>>
  /\ terminal = << PromptLine(<<"/","j","s">>, <<>>) >>

\* C6: Enter on an empty or white-space line changes neither the history log
\* nor the cursor nor the working directory, issues no fetch and adds
\* neither an echo nor a prompt.
BlankSubmissionIsInert ==
  [][ (ev'.op = "Enter" /\ IsBlank(hiddenInput))
      => /\ UNCHANGED << commandHistory, historyIndex, currentDirectory, tasks,
                         fileSystemCache, hiddenInput >>
         /\ Count(terminal', "echo") = Count(terminal, "echo")
         /\ Count(terminal', "prompt") = Count(terminal, "prompt")
         /\ Len(terminal') <= Len(terminal) ]_vars

\* C6 witness: a white-space line was submitted after a command
BlankSubmissionWitness ==
  /\ ev.op = "Enter"
  /\ hiddenInput = <<" ">>
  /\ commandHistory = << <<"l","s">> >>
  /\ historyIndex = -1

\* C7: from the live state with an empty buffer and N >= 1 entries, N
\* history-previous presses and then N history-next presses end with the
\* empty buffer and the cursor at live.
HistoryRoundTrip ==
  (/\ ev.op = "ArrowDown"
   /\ run.kind = "down"
   /\ run.ups = Len(commandHistory)
   /\ run.downs = run.ups)
  => hiddenInput = <<>> /\ historyIndex = -1

\* C7 witness: the round trip over three entries, two of them equal
HistoryRoundTripWitness ==
  /\ ev.op = "ArrowDown"
  /\ run.kind = "down"
  /\ run.ups = 3
  /\ run.downs = 3
  /\ commandHistory = << <<"l","s">>, <<"p","w","d">>, <<"l","s">> >>

SubmissionRecordedAndExecuted ==
  [][ /\ (ev'.op = "Enter" /\ ~ IsBlank(hiddenInput))
         => /\ commandHistory' = Append(commandHistory, ev'.line)
            /\ ev'.line # <<>>
            /\ Head(ev'.line) # " "
            /\ ev'.line[Len(ev'.line)] # " "
            /\ historyIndex' = -1
            /\ ev'.res \in {"done", "threw", "pending", "clear"}
      /\ ~ (ev'.op = "Enter" /\ ~ IsBlank(hiddenInput))
         => commandHistory' = commandHistory ]_vars

\* C10: counted from the activation press, a cycle-trigger press on a
\* session of k >= 2 candidates advances the index by one modulo k and
\* applies that candidate, and the press that makes k+1 leaves candidate 0
\* applied to the buffer and the cycle index at 0.
CycleWrapLaw ==
  [][ (ev'.op = "CtrlU" /\ run'.kind = "cycle")
      => /\ (run'.presses >= 2 /\ Len(autocompleteSuggestions) >= 2)
            => /\ autocompleteSuggestions' = autocompleteSuggestions
               /\ autocompleteIndex' = (autocompleteIndex + 1) % Len(autocompleteSuggestions)
               /\ hiddenInput' = Applied(autocompleteBaseInput,
                                         autocompleteSuggestions[autocompleteIndex' + 1])
         /\ (Len(autocompleteSuggestions') >= 2
               /\ run'.presses = Len(autocompleteSuggestions') + 1)
            => /\ autocompleteIndex' = 0
               /\ hiddenInput' = Applied(autocompleteBaseInput', autocompleteSuggestions'[1]) ]_vars

\* suggest(inputLine, workingDirectory) of the specification, on the listing
\* of the working directory: the names of the entries of one kind, in the
\* order of the listing, that start with a token
SpecNamesOf(listing, kind, token) ==
  LET Matches(e) == e.type = kind /\ StartsWith(e.name, token)
  IN IF listing.kind = "dir"
     THEN [i \in 1..Len(SelectSeq(listing.entries, Matches)) |->
             SelectSeq(listing.entries, Matches)[i].name]
     ELSE <<>>

SpecSuggested(inputLine, workingDirectory, listing) ==
  LET tokens == Tokens(inputLine)
      StartsToken(name) == StartsWith(name, tokens[1])
      StartsSecond(name) == StartsWith(name, tokens[2])
  IN IF Len(tokens) = 1 THEN SelectSeq(commandList, StartsToken)
     ELSE IF Len(tokens) # 2 THEN <<>>
     ELSE IF tokens[1] = <<"c","a","t">> THEN SpecNamesOf(listing, "file", tokens[2])
     ELSE IF tokens[1] = <<"c","d">>
     THEN (IF workingDirectory # Root /\ StartsWith(<<".",".">>, tokens[2])
           THEN << <<".",".">> >> ELSE <<>>)
          \o SpecNamesOf(listing, "dir", tokens[2])
     ELSE IF tokens[1] = <<"t","h","e","m","e","s">> THEN SelectSeq(themes, StartsSecond)
     ELSE <<>>

\* the base input of the specification: the tokens but the last
SpecBase(inputLine) ==
  IF Len(Tokens(inputLine)) = 1 THEN <<>>
  ELSE Join(SubSeq(Tokens(inputLine), 1, Len(Tokens(inputLine)) - 1))

\* this step learns the suggestions of an activation made in Idle on a line
\* that is still in the buffer: at the press, or on the answer to its fetch
ActivationSettles ==
  \/ ev'.op = "CtrlU" /\ ev'.res = "started"
  \/ /\ ev'.op = "Answer" /\ IsAcTask(ev'.task) /\ ~ ev'.task.stale
     /\ Trim(hiddenInput) = ev'.task.input
     /\ autocompleteSuggestions = <<>>

\* the line, the working directory and the listing of that activation
ActivationLine == IF ev'.op = "CtrlU" THEN ev'.line ELSE ev'.task.input
ActivationDirectory == IF ev'.op = "CtrlU" THEN currentDirectory ELSE ev'.task.path
ActivationListing ==
  IF ev'.op = "CtrlU"
  THEN IF currentDirectory \in DOMAIN fileSystemCache
       THEN fileSystemCache[currentDirectory] ELSE NoData
  ELSE IF ev'.ok THEN Remote(ev'.task.path).data ELSE NoData
ActivationSuggestions ==
  SpecSuggested(ActivationLine, ActivationDirectory, ActivationListing)

\* what the program computes for the activation this step settles: the
\* return value of getAutocompleteSuggestions
ComputedSuggestions ==
  IF ev'.op = "CtrlU"
  THEN getAutocompleteSuggestions(ev'.line, currentDirectory, fileSystemCache, "null").list
  ELSE ArgCompletions(ev'.task.op, ActivationListing, ev'.task.arg, currentDirectory).list

\* the listing suggest works on is there, where it needs one
ListingKnown ==
  (Len(Tokens(ActivationLine)) = 2 /\ Tokens(ActivationLine)[1] \in { <<"c","a","t">>, <<"c","d">> })
  => ActivationListing.kind = "dir"

\* C11: every keystroke other than the cycle-trigger leaves the controller in
\* Idle, and the answer to an activation made before an edit or a submission
\* brings no session into existence.
NoSessionOutlivesKeystroke ==
  [][ /\ ev'.op \in {"Input", "KeyOther", "ArrowUp", "ArrowDown", "Enter", "CtrlL"}
         => autocompleteSuggestions' = <<>> /\ autocompleteIndex' = -1
      /\ (ev'.op = "Answer" /\ IsAcTask(ev'.task) /\ ev'.task.stale)
         => autocompleteSuggestions' = <<>> ]_vars

\* C12: a cycle-trigger on a blank buffer changes nothing; an activation in
\* Idle with zero suggestions leaves the buffer, adds the no-match message
\* and stays Idle; with one suggestion it applies it and stays Idle; with two
\* or more it applies the first and stores the list with cycle index 0.
ActivationOutcome ==
  [][ /\ (ev'.op = "CtrlU" /\ IsBlank(hiddenInput))
         => UNCHANGED << hiddenInput, acVars, terminal, tasks >>
      /\ ActivationSettles
         => IF Len(ComputedSuggestions) = 0
            THEN /\ hiddenInput' = hiddenInput
                 /\ autocompleteSuggestions' = <<>>
                 /\ Count(terminal', "no-match") = Count(terminal, "no-match") + 1
            ELSE IF Len(ComputedSuggestions) = 1
            THEN /\ hiddenInput' = Applied(SpecBase(ActivationLine), ComputedSuggestions[1])
                 /\ autocompleteSuggestions' = <<>>
                 /\ autocompleteIndex' = -1
            ELSE /\ hiddenInput' = Applied(SpecBase(ActivationLine), ComputedSuggestions[1])
                 /\ autocompleteSuggestions' = ComputedSuggestions
                 /\ autocompleteIndex' = 0 ]_vars

\* C13: the suggestions the program computes for an activation are those of
\* suggest(inputLine, workingDirectory), for the line and the working
\* directory of the press, on the listing of that directory; each starts
\* with the token being completed and none is returned twice.
SuggestReturnsExactly ==
  [][ ((ev'.op = "CtrlU" \/ (ev'.op = "Answer" /\ IsAcTask(ev'.task))) /\ ev'.res = "started"
        /\ ListingKnown)
      => /\ ComputedSuggestions = ActivationSuggestions
         /\ \A i \in 1..Len(ComputedSuggestions) :
              StartsWith(ComputedSuggestions[i],
                         Tokens(ActivationLine)[Len(Tokens(ActivationLine))])
         /\ \A i, j \in 1..Len(ComputedSuggestions) :
              ComputedSuggestions[i] = ComputedSuggestions[j] => i = j ]_vars

\* C14: the clear-screen shortcut leaves exactly one line on display, an empty
\* prompt showing the current working directory, and changes neither the
\* history log, nor the history cursor, nor the working directory, nor the
\* filesystem cache.
CtrlLOnlyWipesDisplay ==
  [][ ev'.op = "CtrlL"
      => /\ terminal' = << PromptLine(currentDirectory, <<>>) >>
         /\ UNCHANGED << commandHistory, historyIndex, currentDirectory, fileSystemCache >> ]_vars

\* the shortcut was pressed below the root, with a history entry loaded into
\* the buffer and a listing in the cache
CtrlLBelowRootWitness ==
  /\ ev.op = "CtrlL"
  /\ currentDirectory # Root
  /\ commandHistory # <<>>
  /\ historyIndex >= 0
  /\ \E p \in DOMAIN fileSystemCache : TRUE
  /\ terminal = << PromptLine(currentDirectory, <<>>) >>

\* C15: a submitted line equal to clear, letter case aside, adds no command
\* echo to the display; every other non-empty submitted line adds one echo
\* line, of the working directory at submission and the trimmed line, and
\* whatever stood on display before the echo is what stood there before the
\* submission, so that every output of the command comes after it.
SubmissionEchoed ==
  [][ (ev'.op = "Enter" /\ ~ IsBlank(hiddenInput))
      => IF ToLowerCase(Trim(hiddenInput)) = <<"c","l","e","a","r">>
         THEN Count(terminal', "echo") = 0
         ELSE \E k \in 1..Len(terminal') :
                /\ terminal'[k] = EchoLine(currentDirectory, Trim(hiddenInput))
                /\ SubSeq(terminal', 1, k - 1) = SubSeq(terminal, 1, k - 1)
                /\ k <= Len(terminal) => terminal[k] # terminal'[k] ]_vars

\* C16: every object handleCommand returns has both properties: the flag
\* saying whether a full reset was requested and the working directory in
\* effect after the execution.
OutcomeCarriesFlagAndDirectory ==
  ev.out # NoResult
  => /\ DOMAIN ev.out = {"clear", "currentDirectory"}
     /\ ev.out.clear \in BOOLEAN
     /\ ev.out.currentDirectory = currentDirectory

\* a remote fetch is issued in this step, and the request it is issued for
FetchIssued == ev'.res = "pending"
IssuedRequest == tasks'[Len(tasks')]

\* the cache holds a file descriptor for the path
CachedFileEntry(cache, path) == path \in DOMAIN cache /\ cache[path].kind = "file"

\* C17: no fetch is issued by a directory request for a path the cache has a
\* value for, nor by a file read for a path the cache has a file entry for:
\* once a path is cached no further fetch is issued for it.
CacheHitIssuesNoFetch ==
  [][ FetchIssued
      => IF IssuedRequest.op = "catFile"
         THEN ~ CachedFileEntry(fileSystemCache', IssuedRequest.path)
         ELSE IssuedRequest.path \notin DOMAIN fileSystemCache' ]_vars

\* the lines that report the failure of a command
FailureKinds == {"ls-error", "cat-not-found", "cat-usage", "cd-error", "not-found", "exec-error"}
FailureLines(term) == Len(SelectSeq(term, LAMBDA l : l.kind \in FailureKinds))

\* a command settles in this step, and it is one that failed: the handler
\* threw, or a failure line was rendered, or the step ends a cat that had
\* rendered its not-found line before asking for the listing
CommandSettles ==
  /\ ev'.res \in {"done", "threw"}
  /\ ev'.op = "Enter" \/ (ev'.op = "Answer" /\ IsCmdTask(ev'.task))
FailedCommandSettles ==
  /\ CommandSettles
  /\ \/ ev'.res = "threw"
     \/ FailureLines(terminal') > FailureLines(terminal)
     \/ ev'.op = "Answer" /\ ev'.task.op = "catTip"
CommandPending == \E i \in 1..Len(tasks) : IsCmdTask(tasks[i])

\* C18: when a failed command settles, an empty prompt for the working
\* directory is the last line on display and the input field is empty, the
\* working directory is the one before the command and the history log is
\* the one before it, the submitted line appended; a prompt once on display
\* stays until the next submission, and a non-empty line submitted at a
\* prompt is handed to the interpreter; and a pending command is eventually
\* settled when its fetches are answered.
FailedCommandKeepsLoop ==
  /\ [][ /\ FailedCommandSettles
            => /\ terminal'[Len(terminal')] = PromptLine(currentDirectory, <<>>)
               /\ hiddenInput' = <<>>
               /\ currentDirectory' = currentDirectory
               /\ commandHistory' = IF ev'.op = "Enter"
                                     THEN Append(commandHistory, Trim(hiddenInput))
                                     ELSE commandHistory
         /\ (HasPrompt(terminal) /\ ev'.op # "Enter") => HasPrompt(terminal')
         /\ (HasPrompt(terminal) /\ ev'.op = "Enter" /\ ~ IsBlank(hiddenInput))
            => ev'.res \in {"pending", "clear", "done", "threw"} ]_vars
  /\ []<>(~ CommandPending)

\* a command that threw has settled, and the command submitted after it was
\* executed, reported that its file is missing and settled in its turn
FailedThenExecutedWitness ==
  /\ ev.op = "Answer" /\ ev.res = "done" /\ ev.task.op = "catTip"
  /\ \E i, j \in 1..Len(terminal) :
       /\ i < j
       /\ terminal[i].kind = "exec-error"
       /\ terminal[j].kind = "cat-not-found"
  /\ terminal[Len(terminal)] = PromptLine(currentDirectory, <<>>)
  /\ Len(commandHistory) = 2

\* the outcomes of an Enter that handed the line to handleCommand
ExecutedResults == {"pending", "clear", "done", "threw"}

\* C19: while a fetch is outstanding, an edit still sets the buffer to a line
\* of the vocabulary, the history keys still move the cursor and load the
\* entry, and a non-empty submitted line is appended to the history and
\* handed to the interpreter.
PendingCallBlocksNothing ==
  [][ tasks # <<>>
      => /\ ev'.op = "Input" => hiddenInput' \in typable
         /\ (ev'.op = "ArrowUp" /\ ArrowUpMoves(commandHistory, historyIndex))
            => /\ historyIndex' = historyIndex + 1
               /\ hiddenInput' = HistoryAt(commandHistory, historyIndex + 1)
         /\ (ev'.op = "ArrowDown" /\ historyIndex > 0)
            => /\ historyIndex' = historyIndex - 1
               /\ hiddenInput' = HistoryAt(commandHistory, historyIndex - 1)
         /\ (ev'.op = "Enter" /\ ~ IsBlank(hiddenInput))
            => /\ commandHistory' = Append(commandHistory, Trim(hiddenInput))
               /\ ev'.res \in ExecutedResults ]_vars

\* the read of a cat is answered in this step and the file does not exist
CatMissing ==
  /\ ev'.op = "Answer" /\ ev'.task.op = "catFile"
  /\ ~ RemoteHas(ev'.task.path)

\* a cat of a file that does not exist settles in this step: its read was
\* answered and the listing was at hand, or the listing it asked for arrived
CatTipDue ==
  /\ ev'.op = "Answer" /\ ev'.res = "done"
  /\ \/ CatMissing
     \/ /\ ev'.task.op = "catTip"
        /\ ~ RemoteHas(CatFilePath(ev'.task.path, ev'.task.arg))

\* the listing of the working directory that cat obtained (NoData: none)
CatListing ==
  IF ev'.task.op = "catTip"
  THEN IF ev'.ok THEN Remote(ev'.task.path).data ELSE NoData
  ELSE IF currentDirectory \in DOMAIN fileSystemCache
  THEN fileSystemCache[currentDirectory] ELSE NoData
CatSiblings == SpecNamesOf(CatListing, "file", <<>>)

\* one tip line naming the sibling files is rendered, last before the prompt
TipShown ==
  /\ Count(terminal', "cat-tip") = Count(terminal, "cat-tip") + 1
  /\ terminal'[Len(terminal') - 1] = OutLine("cat-tip", JoinWith(CatSiblings, <<","," ">>))

\* the not-found line for the argument is rendered and the working directory
\* stays
NotFoundShown ==
  /\ Count(terminal', "cat-not-found") = Count(terminal, "cat-not-found") + 1
  /\ \E k \in 1..Len(terminal') : terminal'[k] = OutLine("cat-not-found", ev'.task.arg)
  /\ currentDirectory' = currentDirectory

\* C20 as stated: cat of a missing file renders the not-found line, and a tip
\* line listing the sibling files whenever the listing of the working
\* directory is available; the working directory is unchanged.
MissingFileTipWheneverListed ==
  [][ /\ CatMissing => NotFoundShown
      /\ CatTipDue => /\ currentDirectory' = currentDirectory
                      /\ CatListing.kind = "dir" => TipShown ]_vars

\* C20 amended: the tip line is rendered when the listing is available and
\* names at least one file; with no listing or no file in it, no tip line.
MissingFileTipWhenFilesListed ==
  [][ /\ CatMissing => NotFoundShown
      /\ CatTipDue => /\ currentDirectory' = currentDirectory
                      /\ IF CatListing.kind = "dir" /\ CatSiblings # <<>>
                         THEN TipShown
                         ELSE Count(terminal', "cat-tip") = Count(terminal, "cat-tip") ]_vars

\* below the root, in a directory whose listing names no file, a cat of a
\* missing file has settled with its not-found line and no tip
NoTipWithoutFilesWitness ==
  /\ ev.op = "Answer" /\ ev.task.op = "catTip" /\ ev.ok
  /\ currentDirectory = <<"/","j","s">>
  /\ Count(terminal, "cat-not-found") = 1
  /\ Count(terminal, "cat-tip") = 0
  /\ terminal[Len(terminal)] = PromptLine(currentDirectory, <<>>)

\* C21: the path a cat asks the remote for is resolve(workingDirectory,
\* filename) of the Path Resolver: an absolute filename verbatim, a relative
\* one joined to the working directory with one separator.
CatReadsResolvedPath ==
  [][ (ev'.op = "Enter" /\ ev'.res = "pending" /\ ev'.task.op = "catFile")
      => ev'.task.path = SpecResolve(currentDirectory, Tokens(Trim(hiddenInput))[2]) ]_vars

\* the command registry has the word
IsRegistered(w) == \E i \in 1..Len(commandList) : commandList[i] = w

\* this Enter handed its line to the interpreter
LineExecuted == ev'.op = "Enter" /\ ev'.res \in ExecutedResults

\* C22: a line handed to the interpreter whose command token, letter case
\* aside, is no registered command renders the unrecognized line with the
\* submitted text, changes neither the working directory nor the cache and
\* issues no fetch.
UnknownCommandUnrecognized ==
  [][ (LineExecuted /\ ~ IsRegistered(CommandWord(Trim(hiddenInput))))
      => /\ ev'.res = "done"
         /\ terminal'[Len(terminal') - 1] = OutLine("not-found", Trim(hiddenInput))
         /\ UNCHANGED << currentDirectory, fileSystemCache >>
         /\ Len(tasks') = Len(tasks) ]_vars

\* below the root, with a listing cached, a two-word line of an unknown
\* command was submitted and reported with both words
UnknownBelowRootWitness ==
  /\ ev.op = "Enter" /\ ev.line = <<"z","z"," ","y">> /\ ev.res = "done"
  /\ currentDirectory = <<"/","j","s">>
  /\ Root \in DOMAIN fileSystemCache
  /\ terminal[Len(terminal) - 1] = OutLine("not-found", <<"z","z"," ","y">>)

\* C28: the two-word line about me, letter case aside, is answered by the
\* multi-word special case of the fallback and not by a single-word command.
AboutMeBySpecialCase ==
  [][ (LineExecuted /\ ToLowerCase(Trim(hiddenInput)) = <<"a","b","o","u","t"," ","m","e">>)
      => terminal'[Len(terminal') - 1] = OutLine("about-me", <<>>) ]_vars

\* the argument of a submitted line
Argument(line) == IF Len(Tokens(line)) >= 2 THEN Tokens(line)[2] ELSE <<>>

\* C23: themes with a key of the theme registry reports success and makes
\* the key the active theme; with any other argument it reports failure and
\* leaves the active theme as it was; the active theme is a registered key.
ThemeSelectedExactlyWhenRegistered ==
  [][ /\ IsTheme(currentTheme')
      /\ (LineExecuted /\ CommandWord(Trim(hiddenInput)) = <<"t","h","e","m","e","s">>
           /\ Argument(Trim(hiddenInput)) # <<>>)
         => IF IsTheme(Argument(Trim(hiddenInput)))
            THEN /\ currentTheme' = Argument(Trim(hiddenInput))
                 /\ terminal'[Len(terminal') - 1]
                      = OutLine("theme-changed", Argument(Trim(hiddenInput)))
            ELSE /\ currentTheme' = currentTheme
                 /\ terminal'[Len(terminal') - 1]
                      = OutLine("theme-not-found", Argument(Trim(hiddenInput))) ]_vars

\* the answer to the fetch of a directory request arrives in this step, and
\* the request can yield no listing: the remote call erred or the path is
\* not a directory
DirectoryRequestFails ==
  /\ ev'.op = "Answer"
  /\ ev'.task.op # "catFile"
  /\ (~ ev'.ok \/ Remote(ev'.task.path).data.kind # "dir")

\* C24: a directory request whose remote call errs or whose path is not a
\* directory stores nothing in the cache for that path.
FailedListingStoresNothing ==
  [][ DirectoryRequestFails
      => /\ (ev'.task.path \in DOMAIN fileSystemCache')
              = (ev'.task.path \in DOMAIN fileSystemCache)
         /\ ev'.task.path \in DOMAIN fileSystemCache
              => fileSystemCache'[ev'.task.path] = fileSystemCache[ev'.task.path] ]_vars

\* the cache holds a file descriptor whose content cannot be decoded
UndecodableStored(cache) ==
  \E p \in DOMAIN cache :
    cache[p].kind = "file" /\ cache[p].content # <<>> /\ AtobThrows(cache[p].content)

\* C25: content that cannot be decoded is never stored in the cache, and the
\* read of such a file never yields a line rendered as file text: every read
\* fails.
UndecodableNeverKeptNorShown ==
  /\ ~ UndecodableStored(fileSystemCache)
  /\ Count(terminal, "file-content")
       = Len(SelectSeq(terminal, LAMBDA l : l = OutLine("file-content", <<"i">>)))

\* C26: the remote being constant, an entry of the cache is never removed
\* nor replaced by another value, whatever the step; a request whose fetch is
\* answered leaves for its path the value the remote has, so overlapping
\* requests for one path leave and return the same value.
CacheEntriesStable ==
  [][ /\ \A p \in DOMAIN fileSystemCache :
           p \in DOMAIN fileSystemCache' /\ fileSystemCache'[p] = fileSystemCache[p]
      /\ \A p \in DOMAIN fileSystemCache' : fileSystemCache'[p] = Remote(p).data ]_vars

\* the second of two overlapping fetches of the root listing is answered: the
\* completion request was issued at the root, and the cd that moved below
\* the root has obtained the same listing in the meantime
OverlappingFetchesWitness ==
  /\ ev.op = "Answer" /\ ev.ok /\ ev.task.op = "acDir" /\ ev.task.path = Root
  /\ currentDirectory = <<"/","j","s">>
  /\ Len(commandHistory) = 1
  /\ fileSystemCache[Root] = Remote(Root).data

\* a candidate is applied to the buffer in this step, at the start of a
\* cycling session or at a further press, and the candidate that is applied
CandidateApplied ==
  /\ ev'.res \in {"started", "cycled"}
  /\ autocompleteSuggestions' # <<>>
AppliedCandidate == autocompleteSuggestions'[autocompleteIndex' + 1]

\* the line with its last token replaced by the candidate
LastTokenReplaced(line, cand) ==
  Join(SubSeq(Tokens(line), 1, Len(Tokens(line)) - 1) \o << cand >>)

\* C27: applying a candidate replaces the last token of the trimmed buffer
\* (the whole line when it has one token), keeps the earlier tokens and ends
\* the buffer with exactly one space; a candidate applied while cycling
\* leaves the base input of the buffer equal to that of the session.
ApplyReplacesLastToken ==
  [][ CandidateApplied
      => /\ hiddenInput' = LastTokenReplaced(Trim(hiddenInput), AppliedCandidate) \o <<" ">>
         /\ TrimEnd(hiddenInput') = SubSeq(hiddenInput', 1, Len(hiddenInput') - 1)
         /\ ev'.res = "cycled"
              => /\ autocompleteBaseInput' = autocompleteBaseInput
                 /\ SpecBase(Trim(hiddenInput')) = autocompleteBaseInput ]_vars

\* C29: between events the autocomplete state is Idle, with no candidates,
\* the cycle index -1 and the empty base input, or it is Cycling, with at
\* least two candidates and the cycle index one of their positions; the
\* candidate list is empty exactly in Idle.
AutocompleteStateConsistent ==
  /\ autocompleteSuggestions = <<>>
       <=> (autocompleteIndex = -1 /\ autocompleteBaseInput = <<>>)
  /\ autocompleteSuggestions # <<>>
       => /\ Len(autocompleteSuggestions) >= 2
          /\ autocompleteIndex \in 0..(Len(autocompleteSuggestions) - 1)

\* a session of cycling over file names that has advanced to its last
\* candidate
CyclingAtLastWitness ==
  /\ ev.op = "CtrlU" /\ ev.res = "cycled"
  /\ Len(autocompleteSuggestions) >= 2
  /\ autocompleteIndex = Len(autocompleteSuggestions) - 1
  /\ autocompleteBaseInput = <<"c","a","t">>

\* a submitted line finishes executing in this step: at the key press, or on
\* the answer to the last fetch of its command
ExecutionFinishes ==
  /\ \/ ev'.op = "Enter"
     \/ ev'.op = "Answer" /\ IsCmdTask(ev'.task)
  /\ ev'.res \in {"done", "clear", "threw"}

\* C30: when no command is executing the input buffer is the text of the
\* live prompt, and the buffer is empty once a submitted line has finished
\* executing, a line such as clear x included.
BufferIsPromptText ==
  [][ /\ (~ CommandPending' /\ HasPrompt(terminal'))
         => terminal'[FirstPrompt(terminal')].text = hiddenInput'
      /\ ExecutionFinishes => hiddenInput' = <<>> ]_vars

\* the number of live prompt lines on display
LivePrompts(term) == Len(SelectSeq(term, IsPrompt))

\* C31: the output never holds more than one live prompt line, whatever the
\* interleaving of a pending command with the clear-screen shortcut, the
\* reset command and further submissions, and it holds exactly one whenever
\* no command is executing.
AtMostOneLivePrompt ==
  /\ LivePrompts(terminal) <= 1
  /\ ~ CommandPending => LivePrompts(terminal) = 1
====
